---- MODULE Spec2Model ----
(***************************************************************************)
(* TimedMessagePlugin (src/main.py): a per-entry daily timer scheduler.    *)
(*                                                                         *)
(* The plugin keeps a list of entries (scheduled_messages), a map from     *)
(* entry id to an asyncio task (tasks) and a JSON document on disk.        *)
(* Command handlers run on the event loop; none of them suspends between   *)
(* its state changes (save_config and start_single_task contain no real    *)
(* await), so each handler is one atomic action.  A timer task runs from   *)
(* one `await asyncio.sleep` to the next in one step.                      *)
(*                                                                         *)
(* Environment assumptions of the model:                                   *)
(*  - the wall clock is monotonic and counted in whole seconds;            *)
(*  - asyncio.sleep(w) returns no earlier than w seconds later;            *)
(*  - the event loop is not starved: a task that can run does so before    *)
(*    the clock reaches the next second (Tick is disabled while a task is  *)
(*    runnable);                                                           *)
(*  - the event loop's ready queue is first in, first out: create_task and *)
(*    Task.cancel queue the task's next step with call_soon, ahead of      *)
(*    whatever the loop receives afterwards, so the first step of a new    *)
(*    task and the CancelledError of a cancelled one run before the next   *)
(*    command.  A command and a timer whose sleep has just expired run in  *)
(*    either order.                                                        *)
(***************************************************************************)
EXTENDS Integers, Sequences, FiniteSets, TLC

VARIABLES
    phase,               \* "constructed" | "running" | "terminated" | "crashed"
    scheduled_messages,  \* self.scheduled_messages: sequence of entry dicts
    tasks,               \* self.tasks: entry id -> task handle
    pool,                \* the event loop's tasks: handle -> task
    file,                \* the document at self.config_file
    clock,               \* datetime.now(), seconds since day 0, 00:00:00
    out,                 \* the last thing emitted: a command's reply or a send
    fires,               \* history: send_timed_message calls today, per entry
    owed,                \* history: entries armed before today's fire time
    stopped              \* history: ids whose timer a delete or toggle stopped

vars == <<phase, scheduled_messages, tasks, pool, file, clock, out,
          fires, owed, stopped>>

----------------------------------------------------------------------------
(* Bounds of the model *)

MaxDay == 1        \* the clock runs over days 0..MaxDay
MaxEntries == 1    \* add is not taken beyond this many stored entries

(* Program constants *)

DayLen == 86400    \* timedelta(days=1), in seconds


----------------------------------------------------------------------------
(* time.fromisoformat, on strings given as tuples of characters *)

T0900  == <<"0","9",":","0","0">>
TAware == <<"0","9",":","0","0","+","0","8",":","0","0">>
TShort == <<"9",":","0","0">>
TMin60 == <<"0","9",":","6","0">>
THr24  == <<"2","4",":","0","0">>

\* what a user may type as <时间>
TimeInputs == {T0900, TAware, TShort, TMin60, THr24}

DigitVal(c) ==
    CASE c = "0" -> 0 [] c = "1" -> 1 [] c = "2" -> 2 [] c = "3" -> 3
      [] c = "4" -> 4 [] c = "5" -> 5 [] c = "6" -> 6 [] c = "7" -> 7
      [] c = "8" -> 8 [] c = "9" -> 9 [] OTHER -> -1

IsDigit(c) == DigitVal(c) >= 0

\* position of the first "+" in s, 0 when there is none
PlusPos(s) ==
    IF \E i \in 1..Len(s) : s[i] = "+"
    THEN CHOOSE i \in 1..Len(s) : s[i] = "+" /\ \A j \in 1..(i-1) : s[j] # "+"
    ELSE 0

TwoDigits(s, p) ==
    IF p + 1 <= Len(s) /\ IsDigit(s[p]) /\ IsDigit(s[p+1])
    THEN 10 * DigitVal(s[p]) + DigitVal(s[p+1])
    ELSE -1

\* HH[:MM[:SS]]: <<hour, minute, second>>, or <<-1,-1,-1>> when malformed
ParseHMS(s) ==
    LET bad == <<-1, -1, -1>>
        h == TwoDigits(s, 1)
        m == TwoDigits(s, 4)
        x == TwoDigits(s, 7)
    IN  IF h < 0 THEN bad
        ELSE IF Len(s) = 2 THEN <<h, 0, 0>>
        ELSE IF s[3] # ":" \/ m < 0 THEN bad
        ELSE IF Len(s) = 5 THEN <<h, m, 0>>
        ELSE IF s[6] # ":" \/ x < 0 THEN bad
        ELSE IF Len(s) = 8 THEN <<h, m, x>>
        ELSE bad

\* time.fromisoformat(s): HH[:MM[:SS]] optionally followed by +HH:MM.
\* ok = FALSE stands for ValueError; aware = TRUE for a time with tzinfo.
parse_isoformat_time(s) ==
    LET p    == PlusPos(s)
        body == IF p = 0 THEN s ELSE SubSeq(s, 1, p - 1)
        tz   == IF p = 0 THEN <<>> ELSE SubSeq(s, p + 1, Len(s))
        c    == ParseHMS(body)
        z    == ParseHMS(tz)
        tzOk == p = 0 \/ (Len(tz) = 5 /\ z[1] >= 0 /\ z[1] <= 23 /\ z[2] <= 59)
        ok   == c[1] >= 0 /\ c[1] <= 23 /\ c[2] <= 59 /\ c[3] <= 59 /\ tzOk
    IN  [ok |-> ok, aware |-> ok /\ p # 0,
         tod |-> IF ok THEN c[1] * 3600 + c[2] * 60 + c[3] ELSE 0]

\* the parse of each string the model uses, computed once
ParsedTimes == [s \in TimeInputs |-> parse_isoformat_time(s)]

fromisoformat(s) == ParsedTimes[s]

\* 09:00:00 as seconds of the day: the fire time of the accepted inputs
FireTod == fromisoformat(T0900).tod

\* The instants at which the model lets something happen: one second before
\* and at the fire time of each day.
Instants == { d * DayLen + FireTod + k : d \in 0..MaxDay, k \in {-1, 0} }

----------------------------------------------------------------------------
(* Entries, the persisted document, tasks *)

\* msg_config.get('enabled', True)
get_enabled(msg) == IF msg.has_enabled THEN msg.enabled ELSE TRUE

\* json.dump of one entry dict: the "enabled" member is written only when the
\* dict has the key
dump_entry(msg) ==
    [id |-> msg.id, time |-> msg.time,
     enabled |-> IF ~msg.has_enabled THEN "absent"
                 ELSE IF msg.enabled THEN "true" ELSE "false"]

\* json.load of one object
load_entry(obj) ==
    [id |-> obj.id, time |-> obj.time,
     has_enabled |-> obj.enabled # "absent",
     enabled |-> obj.enabled # "false"]

json_dump(msgs) ==
    [kind |-> "list", entries |-> [i \in 1..Len(msgs) |-> dump_entry(msgs[i])]]

json_load(doc) == [i \in 1..Len(doc.entries) |-> load_entry(doc.entries[i])]

\* the id of a loaded record that has no "id" member: msg_config['id'] raises
\* KeyError on it
NoId == <<>>

NoFile == [kind |-> "absent", entries |-> <<>>]
\* a truncated or half-written document: json.load raises on it
Garbage == [kind |-> "garbage", entries |-> <<>>]

\* The plugin's mutable state as one value, so that a handler is a function
\* from state to state.
Cur == [sm |-> scheduled_messages, tasks |-> tasks, pool |-> pool,
        file |-> file, out |-> out]

NoOut == [op |-> "none", res |-> "none"]
Out(op, res) == [op |-> op, res |-> res]

\* what the timer loop reads of its msg_config, and what the history
\* variables know an entry by
Key(msg) == [id |-> msg.id, time |-> msg.time]

Ids(msgs) == { msgs[i].id : i \in 1..Len(msgs) }

Done(t) == t.st \in {"cancelled", "failed"}
\* a timer that can still fire: not finished, no cancel requested
Active(t) == ~Done(t) /\ ~t.cancel

\* Task.cancel(): a request, honoured at the task's next step; nothing on a
\* finished task
Cancel(pl, h) ==
    IF Done(pl[h]) THEN pl ELSE [pl EXCEPT ![h].cancel = TRUE]

\* finished tasks that self.tasks no longer refers to are collected
Collect(P) ==
    LET keep == { h \in DOMAIN P.pool :
                    ~Done(P.pool[h]) \/ \E i \in DOMAIN P.tasks : P.tasks[i] = h }
    IN  [P EXCEPT !.pool = [h \in keep |-> P.pool[h]]]

Without(f, k) == [x \in DOMAIN f \ {k} |-> f[x]]

\* index of the first entry whose id is msg_id, 0 when there is none: the
\* handlers' `for msg in self.scheduled_messages: if msg['id'] == msg_id`
Find(msgs, msg_id) ==
    IF msg_id \in Ids(msgs)
    THEN CHOOSE i \in 1..Len(msgs) :
            msgs[i].id = msg_id /\ \A j \in 1..(i-1) : msgs[j].id # msg_id
    ELSE 0

\* del self.scheduled_messages[i]
DelAt(msgs, i) == SubSeq(msgs, 1, i - 1) \o SubSeq(msgs, i + 1, Len(msgs))

----------------------------------------------------------------------------
(* The timer loop *)

\* faulty variant: `>` where the code has `>=`: a loop rescheduling at the fire
\* instant picks today again
next_run_strict(now, target) ==
    LET today == (now \div DayLen) * DayLen
        current_time == now % DayLen
    IN  IF current_time > target
        THEN today + DayLen + target
        ELSE today + target

\* faulty variant: tomorrow's slot whatever the time of day
next_run_tomorrow(now, target) ==
    (now \div DayLen) * DayLen + DayLen + target

\* lines 70-72: today's date at target, or tomorrow's when the time of day
\* is at or past it
next_run(now, target) ==
    LET today == (now \div DayLen) * DayLen
        current_time == now % DayLen
    IN  IF current_time >= target
        THEN today + DayLen + target
        ELSE today + target

\* lines 65-77: one pass from the top of the loop to the sleep.  A string
\* fromisoformat rejects raises ValueError, an aware time raises TypeError
\* when compared with the naive current time; `except Exception` ends the
\* loop.
Schedule(t, now) ==
    LET target_time == fromisoformat(t.cfg.time)
    IN  IF ~target_time.ok \/ target_time.aware
        THEN [t EXCEPT !.st = "failed", !.wake = 0]
        ELSE [t EXCEPT !.st = "sleep", !.wake = next_run(now, target_time.tod)]

\* faulty variant: no try/except around the send: the exception reaches the loop
send_unguarded(deliveryOk) == IF deliveryOk THEN "sent" ELSE "raised"

\* send_timed_message: whatever goes wrong inside is caught and logged
send_timed_message(deliveryOk) == IF deliveryOk THEN "sent" ELSE "logged"

\* asyncio.create_task(self.timed_message_loop(msg_config))
NewTask(msg) ==
    [cfg |-> Key(msg),
     st |-> "new", wake |-> 0, cancel |-> FALSE]

Cancelled(t) == [t EXCEPT !.st = "cancelled", !.wake = 0, !.cancel = FALSE]

\* the task's next step when it does not send: a cancelled task ends at its
\* await (or before its first line), a new one runs to its first sleep
Resume(t, now) == IF t.cancel THEN Cancelled(t) ELSE Schedule(t, now)

\* the step after the sleep has expired: send, then back to the top
AfterSleep(t, now, deliveryOk) ==
    IF send_timed_message(deliveryOk) = "raised"
    THEN [t EXCEPT !.st = "failed", !.wake = 0]
    ELSE Schedule(t, now)

----------------------------------------------------------------------------
(* The handlers, as functions of the plugin's state *)

\* save is what the write does: "ok"; "eopen" (open fails, the document is
\* untouched); "ewrite" (open truncated the file, the dump did not finish)
SaveOutcomes == {"ok", "eopen", "ewrite"}

save_config(P, save) ==
    CASE save = "ok"     -> [P EXCEPT !.file = json_dump(P.sm)]
      [] save = "eopen"  -> P
      [] save = "ewrite" -> [P EXCEPT !.file = Garbage]

load_config(P, save) ==
    CASE P.file.kind = "list"    -> [P EXCEPT !.sm = json_load(P.file)]
      [] P.file.kind = "absent"  -> save_config([P EXCEPT !.sm = <<>>], save)
      [] P.file.kind = "garbage" -> [P EXCEPT !.sm = <<>>]

NewHandle(pl) ==
    CHOOSE h \in 1..(Cardinality(DOMAIN pl) + 1) :
        h \notin DOMAIN pl /\ \A g \in 1..(h-1) : g \in DOMAIN pl

\* faulty variant: the existing task of the id is replaced without being cancelled
start_without_cancel(P, msg) ==
    LET h == NewHandle(P.pool)
    IN  Collect([P EXCEPT !.pool = (h :> NewTask(msg)) @@ P.pool,
                          !.tasks = (msg.id :> h) @@ Without(P.tasks, msg.id)])

\* line 54 raises KeyError for a record without "id"; nothing in
\* start_single_task, start_all_tasks or initialize catches it
start_single_task(P, msg) ==
    IF msg.id = NoId
    THEN [P EXCEPT !.out = Out("start", "raised")]
    ELSE
    LET task_id == msg.id
        pl == IF task_id \in DOMAIN P.tasks
              THEN Cancel(P.pool, P.tasks[task_id])
              ELSE P.pool
        h  == NewHandle(pl)
    IN  Collect([P EXCEPT !.pool = (h :> NewTask(msg)) @@ pl,
                          !.tasks = (task_id :> h) @@ Without(P.tasks, task_id)])

RECURSIVE StartFrom(_, _)
StartFrom(P, i) ==
    IF i > Len(P.sm) \/ P.out.res = "raised" THEN P
    ELSE StartFrom(IF get_enabled(P.sm[i])
                   THEN start_single_task(P, P.sm[i]) ELSE P, i + 1)

start_all_tasks(P) == StartFrom(P, 1)

initialize(P, save) == start_all_tasks(load_config(P, save))

\* faulty variant: the handle is dropped from self.tasks, the task not cancelled
stop_without_cancel(P, msg_id) ==
    Collect([P EXCEPT !.tasks = Without(P.tasks, msg_id)])

\* lines 182-184 and 225-227
stop_task(P, msg_id) ==
    IF msg_id \in DOMAIN P.tasks
    THEN Collect([P EXCEPT !.pool = Cancel(P.pool, P.tasks[msg_id]),
                           !.tasks = Without(P.tasks, msg_id)])
    ELSE P

\* f"msg_{len(self.scheduled_messages) + 1}_{int(datetime.now().timestamp())}"
msg_id_for(msgs, now) == <<Len(msgs) + 1, now>>

\* faulty variant: a failed save raises into the handler, whose outer
\* `except Exception` answers before the task is started
add_unguarded_save(P, time_str, now, save) ==
    IF ~fromisoformat(time_str).ok
    THEN [P EXCEPT !.out = Out("add", "bad_time")]
    ELSE LET msg_id == msg_id_for(P.sm, now)
             new_config == [id |-> msg_id, time |-> time_str,
                            has_enabled |-> TRUE, enabled |-> TRUE]
             P1 == [P EXCEPT !.sm = Append(P.sm, new_config)]
             P2 == save_config(P1, save)
         IN  IF save # "ok"
             THEN [P2 EXCEPT !.out = Out("add", "failed")]
             ELSE [start_single_task(P2, new_config)
                      EXCEPT !.out = Out("add", "added")]

add_timed_message(P, time_str, now, save) ==
    IF ~fromisoformat(time_str).ok
    THEN [P EXCEPT !.out = Out("add", "bad_time")]
    ELSE LET msg_id == msg_id_for(P.sm, now)
             new_config == [id |-> msg_id, time |-> time_str,
                            has_enabled |-> TRUE, enabled |-> TRUE]
             P1 == [P EXCEPT !.sm = Append(P.sm, new_config)]
             P2 == save_config(P1, save)
             P3 == start_single_task(P2, new_config)
         IN  [P3 EXCEPT !.out = Out("add", "added")]

\* faulty variant: save_config after the loop, whether or not the id was found
delete_saving_always(P, msg_id, save) ==
    LET i == Find(P.sm, msg_id)
    IN  IF i = 0
        THEN [save_config(P, save) EXCEPT !.out = Out("delete", "not_found")]
        ELSE LET P1 == stop_task(P, msg_id)
                 P2 == [P1 EXCEPT !.sm = DelAt(P1.sm, i)]
                 P3 == save_config(P2, save)
             IN  [P3 EXCEPT !.out = Out("delete", "deleted")]

delete_timed_message(P, msg_id, save) ==
    LET i == Find(P.sm, msg_id)
    IN  IF i = 0
        THEN [P EXCEPT !.out = Out("delete", "not_found")]
        ELSE LET P1 == stop_task(P, msg_id)
                 P2 == [P1 EXCEPT !.sm = DelAt(P1.sm, i)]
                 P3 == save_config(P2, save)
             IN  [P3 EXCEPT !.out = Out("delete", "deleted")]

\* faulty variant: msg.get('enabled', False): a missing flag read as disabled
toggle_default_off(P, msg_id, save) ==
    LET i == Find(P.sm, msg_id)
    IN  IF i = 0
        THEN [P EXCEPT !.out = Out("toggle", "not_found")]
        ELSE LET msg == [P.sm[i] EXCEPT
                            !.enabled = ~(P.sm[i].has_enabled /\ P.sm[i].enabled),
                            !.has_enabled = TRUE]
                 P1 == [P EXCEPT !.sm[i] = msg]
                 P2 == save_config(P1, save)
             IN  IF msg.enabled
                 THEN [start_single_task(P2, msg)
                          EXCEPT !.out = Out("toggle", "enabled")]
                 ELSE [stop_task(P2, msg_id)
                          EXCEPT !.out = Out("toggle", "disabled")]

toggle_timed_message(P, msg_id, save) ==
    LET i == Find(P.sm, msg_id)
    IN  IF i = 0
        THEN [P EXCEPT !.out = Out("toggle", "not_found")]
        ELSE LET msg == [P.sm[i] EXCEPT !.enabled = ~get_enabled(P.sm[i]),
                                        !.has_enabled = TRUE]
                 P1 == [P EXCEPT !.sm[i] = msg]
                 P2 == save_config(P1, save)
             IN  IF msg.enabled
                 THEN [start_single_task(P2, msg)
                          EXCEPT !.out = Out("toggle", "enabled")]
                 ELSE [stop_task(P2, msg_id)
                          EXCEPT !.out = Out("toggle", "disabled")]

\* for task in self.tasks.values(): task.cancel()
terminate(P) ==
    [P EXCEPT !.pool = [h \in DOMAIN P.pool |->
        IF \E i \in DOMAIN P.tasks : P.tasks[i] = h /\ ~Done(P.pool[h])
        THEN [P.pool[h] EXCEPT !.cancel = TRUE] ELSE P.pool[h]]]

----------------------------------------------------------------------------
(* Initial state: the plugin just constructed (lines 12-16), the document
   left by earlier runs *)

\* written by an older version of the plugin: no "enabled" member
LegacyDoc ==
    [kind |-> "list",
     entries |-> << [id |-> <<1, 0>>, time |-> T0900, enabled |-> "absent"] >>]

\* parsable, a list, but its record has no "id" member
NoIdDoc ==
    [kind |-> "list",
     entries |-> << [id |-> NoId, time |-> T0900, enabled |-> "absent"] >>]

InitFiles == {NoFile, LegacyDoc, Garbage, NoIdDoc}

\* an id no add has produced
UnknownId == <<0, 0>>

Init ==
    /\ phase = "constructed"
    /\ scheduled_messages = <<>>
    /\ tasks = <<>>
    /\ pool = <<>>
    /\ file \in InitFiles
    /\ clock = FireTod - 1
    /\ out = NoOut
    /\ fires = <<>>
    /\ owed = {}
    /\ stopped = {}

----------------------------------------------------------------------------
(* Actions *)

\* the entries that exist somewhere: in the store, in the document, or as
\* the msg_config of a task
Existing(P) ==
    { Key(P.sm[i]) : i \in 1..Len(P.sm) }
      \cup { Key(P.file.entries[i]) : i \in 1..Len(P.file.entries) }
      \cup { P.pool[h].cfg : h \in DOMAIN P.pool }

\* the history of today's sends, kept for the entries that still exist
Sends(f, P) == [k \in DOMAIN f \cap Existing(P) |-> f[k]]

Install(P) ==
    /\ scheduled_messages' = P.sm
    /\ tasks' = P.tasks
    /\ pool' = P.pool
    /\ file' = P.file
    /\ out' = P.out

\* a step that sends nothing
InstallQuiet(P) == Install(P) /\ fires' = Sends(fires, P)

\* the ids in ids whose stopped timer's task is still there
Stopped(ids, P) == { i \in ids : \E h \in DOMAIN P.pool : P.pool[h].cfg.id = i }

\* no step queued by create_task or Task.cancel is waiting in the ready queue
Quiet == \A h \in DOMAIN pool :
            Done(pool[h]) \/ (pool[h].st # "new" /\ ~pool[h].cancel)

\* an entry the timer loop can schedule
Schedulable(k) == fromisoformat(k.time).ok /\ ~fromisoformat(k.time).aware

\* entries whose timer, started now, has its next fire today
ArmedNow(ks) ==
    { k \in ks : Schedulable(k) /\ clock % DayLen < fromisoformat(k.time).tod }

EnabledKeys(msgs) ==
    { Key(msgs[i]) : i \in { j \in 1..Len(msgs) : get_enabled(msgs[j]) } }

Initialize(save) ==
    /\ phase = "constructed"
    /\ LET P == initialize(Cur, save)
       IN  /\ phase' = IF P.out.res = "raised" THEN "crashed" ELSE "running"
           /\ InstallQuiet(P)
           /\ owed' = IF P.out.res = "raised" THEN {}
                      ELSE ArmedNow(EnabledKeys(P.sm))
    /\ stopped' = {}
    /\ UNCHANGED clock

Add(time_str, save, cap) ==
    /\ Quiet
    /\ Len(scheduled_messages) < cap
    /\ LET P == add_timed_message(Cur, time_str, clock, save)
       IN  /\ InstallQuiet(P)
           /\ owed' = IF P.out.res = "added"
                      THEN owed \cup ArmedNow({[id |-> msg_id_for(scheduled_messages, clock),
                                                 time |-> time_str]})
                      ELSE owed
           /\ stopped' = Stopped(IF P.out.res = "added"
                                  THEN stopped \ {msg_id_for(scheduled_messages, clock)}
                                  ELSE stopped, P)
    /\ UNCHANGED <<phase, clock>>

Delete(msg_id, save) ==
    /\ Quiet
    /\ LET i == Find(scheduled_messages, msg_id)
           P == delete_timed_message(Cur, msg_id, save)
       IN  /\ InstallQuiet(P)
           /\ owed' = IF i = 0 THEN owed ELSE owed \ {Key(scheduled_messages[i])}
           /\ stopped' = Stopped(IF i # 0 /\ msg_id \in DOMAIN tasks
                                  THEN stopped \cup {msg_id} ELSE stopped, P)
    /\ UNCHANGED <<phase, clock>>

Toggle(msg_id, save) ==
    /\ Quiet
    /\ LET P == toggle_timed_message(Cur, msg_id, save)
           i == Find(scheduled_messages, msg_id)
       IN  /\ InstallQuiet(P)
           /\ owed' = CASE P.out.res = "enabled"
                             -> owed \cup ArmedNow({Key(scheduled_messages[i])})
                         [] P.out.res = "disabled"
                             -> owed \ {Key(scheduled_messages[i])}
                         [] OTHER -> owed
           /\ stopped' = Stopped(
                 CASE P.out.res = "enabled" -> stopped \ {msg_id}
                   [] P.out.res = "disabled" /\ msg_id \in DOMAIN tasks
                        -> stopped \cup {msg_id}
                   [] OTHER -> stopped, P)
    /\ UNCHANGED <<phase, clock>>

Terminate ==
    /\ phase = "running"
    /\ Quiet
    /\ phase' = "terminated"
    /\ InstallQuiet([terminate(Cur) EXCEPT !.out = NoOut])
    /\ owed' = {}
    /\ UNCHANGED <<clock, stopped>>

\* the process exits and a new one constructs the plugin: the old tasks die
\* with the old event loop, the document stays
Restart ==
    /\ phase = "terminated"
    /\ phase' = "constructed"
    /\ InstallQuiet([Cur EXCEPT !.sm = <<>>, !.tasks = <<>>, !.pool = <<>>,
                                !.out = NoOut])
    /\ stopped' = {}
    /\ UNCHANGED <<clock, owed>>

Runnable(t) == ~Done(t) /\ (t.st = "new" \/ t.cancel \/ clock >= t.wake)

\* a task's step that sends nothing: its first run, or the CancelledError
TaskRun(h) ==
    /\ h \in DOMAIN pool
    /\ ~Done(pool[h])
    /\ pool[h].st = "new" \/ pool[h].cancel
    /\ LET P == Collect([Cur EXCEPT !.pool[h] = Resume(pool[h], clock),
                                    !.out = NoOut])
       IN  InstallQuiet(P) /\ stopped' = Stopped(stopped, P)
    /\ UNCHANGED <<phase, clock, owed>>

Count(f, k) == IF k \in DOMAIN f THEN f[k] ELSE 0

\* the sleep has expired and no cancel was requested: send and reschedule
TaskFire(h, deliveryOk) ==
    /\ h \in DOMAIN pool
    /\ Quiet
    /\ pool[h].st = "sleep" /\ ~pool[h].cancel /\ clock >= pool[h].wake
    /\ LET k == pool[h].cfg
           P == Collect([Cur EXCEPT
                  !.pool[h] = AfterSleep(pool[h], clock, deliveryOk),
                  !.out = Out("send", IF deliveryOk THEN "sent" ELSE "failed")])
       IN  /\ Install(P)
           /\ fires' = Sends((k :> (IF Count(fires, k) < 2
                                    THEN Count(fires, k) + 1 ELSE 2))
                               @@ Without(fires, k), P)
           /\ owed' = owed \ {k}
           /\ stopped' = Stopped(stopped, P)
    /\ UNCHANGED <<phase, clock>>

\* time passes, to a later instant no sleeping timer is due before
Tick ==
    /\ \A h \in DOMAIN pool : ~Runnable(pool[h])
    /\ \E c \in Instants :
          /\ c > clock
          /\ \A h \in DOMAIN pool : Active(pool[h]) => c <= pool[h].wake
          /\ clock' = c
          /\ IF c \div DayLen # clock \div DayLen
             THEN /\ fires' = <<>>
                  /\ owed' = IF phase = "running"
                             THEN { k \in EnabledKeys(scheduled_messages) : Schedulable(k) }
                             ELSE {}
             ELSE UNCHANGED <<fires, owed>>
    /\ out' = NoOut
    /\ UNCHANGED <<phase, scheduled_messages, tasks, pool, file, stopped>>

CmdIds == Ids(scheduled_messages) \cup {UnknownId}

Command(saves, cap) ==
    \/ \E ts \in TimeInputs, sv \in saves : Add(ts, sv, cap)
    \/ \E i \in CmdIds, sv \in saves : Delete(i, sv)
    \/ \E i \in CmdIds, sv \in saves : Toggle(i, sv)

Timers ==
    \/ \E h \in DOMAIN pool : TaskRun(h)
    \/ \E h \in DOMAIN pool, ok \in BOOLEAN : TaskFire(h, ok)
    \/ Tick

\* the plugin's whole life, every save succeeding
Next ==
    \/ Initialize("ok")
    \/ phase = "running" /\ Command({"ok"}, MaxEntries)
    \/ Terminate
    \/ Restart
    \/ Timers

Spec == Init /\ [][Next]_vars

\* one process, with room for one more entry: what a burst of commands
\* within one second and the days after it can do
NextBurst ==
    \/ Initialize("ok")
    \/ phase = "running" /\ Command({"ok"}, MaxEntries + 1)
    \/ Timers

\* the event loop runs what is ready, first come first served: a task's
\* first step and a cancelled task's CancelledError are taken, a timer whose
\* sleep has expired resumes however many commands arrive, and time passes
Fairness ==
    /\ SF_vars(Tick)
    /\ WF_vars(\E h \in DOMAIN pool : TaskRun(h))
    /\ SF_vars(\E h \in DOMAIN pool, ok \in BOOLEAN : TaskFire(h, ok))

SpecLive == Init /\ [][NextBurst]_vars /\ Fairness

\* the burst alone: no time passes
NextIds ==
    \/ Initialize("ok")
    \/ phase = "running" /\ Command({"ok"}, MaxEntries + 1)
    \/ \E h \in DOMAIN pool : TaskRun(h)

SpecIds == Init /\ [][NextIds]_vars

\* commands and restarts with saves that may fail, no time passing
NextIO ==
    \/ \E sv \in SaveOutcomes : Initialize(sv)
    \/ phase = "running" /\ Command(SaveOutcomes, MaxEntries)
    \/ Terminate
    \/ Restart
    \/ \E h \in DOMAIN pool : TaskRun(h)

SpecIO == Init /\ [][NextIO]_vars

\* a burst of commands, then terminate and a new process: what the document
\* left by one run does to the next
NextReload ==
    \/ Initialize("ok")
    \/ phase = "running" /\ Command({"ok"}, MaxEntries + 1)
    \/ Terminate
    \/ Restart
    \/ \E h \in DOMAIN pool : TaskRun(h)

SpecReload == Init /\ [][NextReload]_vars

\* the plugin loaded at any time of day: midnight, around the fire time, the
\* last second of the day
StartTimes ==
    { d * DayLen + x : d \in 0..MaxDay,
                       x \in {0, FireTod - 1, FireTod, FireTod + 1, DayLen - 1} }

InitAnyTime ==
    /\ phase = "constructed"
    /\ scheduled_messages = <<>>
    /\ tasks = <<>>
    /\ pool = <<>>
    /\ file \in InitFiles
    /\ clock \in StartTimes
    /\ out = NoOut
    /\ fires = <<>>
    /\ owed = {}
    /\ stopped = {}

\* timers started and restarted (by toggles) at those times
NextClock ==
    \/ Initialize("ok")
    \/ phase = "running" /\ \E i \in CmdIds : Toggle(i, "ok")
    \/ Timers

SpecClock == InitAnyTime /\ [][NextClock]_vars

\* the instance after terminate: terminate sets no flag and the handlers test
\* none, so a command dispatched to the terminated instance runs as before
NextShutdown ==
    \/ Initialize("ok")
    \/ phase \in {"running", "terminated"} /\ Command({"ok"}, MaxEntries)
    \/ Terminate
    \/ Timers

SpecShutdown == Init /\ [][NextShutdown]_vars

----------------------------------------------------------------------------
(* Properties *)

\* the timer registered for an id is alive
HasActive(P, id) == id \in DOMAIN P.tasks /\ Active(P.pool[P.tasks[id]])

\* HH:MM, 24-hour
IsHHMM(s) ==
    /\ Len(s) = 5
    /\ s[3] = ":"
    /\ TwoDigits(s, 1) \in 0..23
    /\ TwoDigits(s, 4) \in 0..59

\* C1: while the plugin runs, a stored entry has an active timer task in
\* self.tasks exactly when its enabled flag is true.
C1_TimerIffEnabled ==
    phase = "running" =>
        \A i \in 1..Len(scheduled_messages) :
            HasActive(Cur, scheduled_messages[i].id)
                <=> get_enabled(scheduled_messages[i])

\* C2: the entries of the store have pairwise distinct ids.
C2_IdsUnique ==
    \A i, j \in 1..Len(scheduled_messages) :
        i # j => scheduled_messages[i].id # scheduled_messages[j].id

\* C3: no two timer tasks that are neither finished nor cancelled have the
\* same entry id.
C3_OneTimerPerId ==
    \A g, h \in DOMAIN pool :
        (Active(pool[g]) /\ Active(pool[h]) /\ pool[g].cfg.id = pool[h].cfg.id)
            => g = h

\* start_single_task has run for an id that had a task: the old task is
\* cancelled, the new one registered
C3_Witness ==
    \E g, h \in DOMAIN pool :
        /\ pool[g].cfg.id = pool[h].cfg.id
        /\ ~Done(pool[g]) /\ pool[g].cancel
        /\ Active(pool[h]) /\ tasks[pool[h].cfg.id] = h

\* C4: no send happens for an id whose timer a delete or a disabling toggle
\* has stopped, until a timer is started for that id again: the task that
\* sends is the registered, uncancelled timer of a stored, enabled entry,
\* and not one stopped in this run of the process.
C4_NoSendAfterStop ==
    [][\A h \in DOMAIN pool, ok \in BOOLEAN :
          TaskFire(h, ok) =>
              /\ pool[h].cfg.id \notin stopped
              /\ HasActive(Cur, pool[h].cfg.id) /\ tasks[pool[h].cfg.id] = h
              /\ \E i \in 1..Len(scheduled_messages) :
                    /\ Key(scheduled_messages[i]) = pool[h].cfg
                    /\ get_enabled(scheduled_messages[i])]_vars

\* a timer stopped at the instant its sleep had expired, before it resumed
C4_Witness ==
    \E h \in DOMAIN pool :
        /\ pool[h].cfg.id \in stopped
        /\ pool[h].st = "sleep" /\ pool[h].cancel
        /\ clock >= pool[h].wake

\* C5: an entry with a valid fire time that is stored and enabled when its
\* fire time of the day is still ahead is delivered that day, unless it is
\* deleted or disabled first: whenever deliveries are owed, a time comes
\* when every one of them has been made.
C5_FiresEveryDay == (owed # {}) ~> (owed = {})

\* C6: no entry is sent more than once in a calendar day.
C6_OncePerDay == \A k \in DOMAIN fires : fires[k] <= 1

\* a timer started (by initialize or a toggle) at the fire instant, for an
\* entry already delivered today
C6_Witness ==
    \E h \in DOMAIN pool :
        /\ pool[h].st = "new"
        /\ Count(fires, pool[h].cfg) = 1
        /\ clock % DayLen = fromisoformat(pool[h].cfg.time).tod

\* C7: a send that fails leaves the timer loop asleep until the entry's
\* fire time of the next day.
C7_FailedSendReschedules ==
    [][\A h \in DOMAIN pool :
          TaskFire(h, FALSE) =>
              /\ h \in DOMAIN pool'
              /\ pool'[h].st = "sleep"
              /\ pool'[h].wake = (clock \div DayLen + 1) * DayLen
                                    + fromisoformat(pool[h].cfg.time).tod]_vars

\* after a failed send the timer waits for tomorrow
C7_Witness ==
    /\ out = Out("send", "failed")
    /\ \E h \in DOMAIN pool : Active(pool[h]) /\ pool[h].wake > clock

\* C8: add rejects what is not HH:MM and then changes nothing; what it
\* accepts the timer loop can schedule.
C8_AddValidates ==
    [][\A ts \in TimeInputs :
          Add(ts, "ok", MaxEntries) =>
              IF IsHHMM(ts)
              THEN out'.res = "added" /\ Schedulable([time |-> ts])
              ELSE /\ out'.res = "bad_time"
                   /\ UNCHANGED <<scheduled_messages, tasks, pool, file>>]_vars

\* C9: a delete or toggle of an id that no entry has answers not found and
\* leaves the store, the task map, the tasks and the document as they were.
C9_NotFoundChangesNothing ==
    [][\A id \in CmdIds, sv \in SaveOutcomes :
          ((Delete(id, sv) \/ Toggle(id, sv)) /\ id \notin Ids(scheduled_messages))
              => /\ out'.res = "not_found"
                 /\ UNCHANGED <<scheduled_messages, tasks, pool, file>>]_vars

\* not found, in a state where a save would have rewritten the document
C9_Witness ==
    /\ out.res = "not_found"
    /\ phase = "running"
    /\ file # json_dump(scheduled_messages)

\* the entry at i with its enabled flag written out
Explicit(msgs, i) ==
    [msgs EXCEPT ![i].has_enabled = TRUE, ![i].enabled = get_enabled(msgs[i])]

NoActive(P, id) == \A h \in DOMAIN P.pool : P.pool[h].cfg.id = id => ~Active(P.pool[h])

\* what two toggles of the same id leave, apart from the document
ToggleTwiceCore(id, s1, s2) ==
    LET i  == Find(scheduled_messages, id)
        P1 == toggle_timed_message(Cur, id, s1)
        P2 == toggle_timed_message(P1, id, s2)
    IN  /\ get_enabled(P2.sm[i]) = get_enabled(scheduled_messages[i])
        /\ P2.sm = Explicit(scheduled_messages, i)
        /\ \A P \in {P1, P2} :
              IF get_enabled(P.sm[i]) THEN HasActive(P, id) ELSE NoActive(P, id)

\* C10 (as claimed): two toggles of an id restore the entry's enabled state
\* and the document's content (the document holding the store, both saves
\* succeeding), and leave a timer exactly after the enabling toggle.
C10_ToggleTwiceRestores ==
    phase = "running" =>
        \A id \in Ids(scheduled_messages) :
            /\ ToggleTwiceCore(id, "ok", "ok")
            /\ file = json_dump(scheduled_messages) =>
                  toggle_timed_message(toggle_timed_message(Cur, id, "ok"),
                                       id, "ok").file = file

\* C10 (amended): two toggles of an id restore the entry's effective enabled
\* state whatever the saves do, and leave a timer exactly after the enabling
\* toggle; when the document held the store and both saves succeed, the
\* document is the original one with the toggled entry's enabled flag
\* written out.
C10_ToggleTwice ==
    phase = "running" =>
        \A id \in Ids(scheduled_messages), s1, s2 \in SaveOutcomes :
            /\ ToggleTwiceCore(id, s1, s2)
            /\ (file = json_dump(scheduled_messages) /\ s1 = "ok" /\ s2 = "ok") =>
                  toggle_timed_message(toggle_timed_message(Cur, id, s1), id, s2).file
                    = json_dump(Explicit(scheduled_messages,
                                         Find(scheduled_messages, id)))

\* the entry loaded without an enabled flag, toggled off and on again
C10_Witness ==
    /\ out = Out("toggle", "enabled")
    /\ file # LegacyDoc
    /\ \E i \in 1..Len(scheduled_messages) :
          /\ Key(scheduled_messages[i]) = Key(LegacyDoc.entries[1])
          /\ scheduled_messages[i].has_enabled /\ scheduled_messages[i].enabled
          /\ file = json_dump(scheduled_messages)

\* C11: after the delete of a stored entry's id (every id that add returns
\* is one), no entry with that id is in the store and no active timer is
\* left for that id.
C11_AddThenDelete ==
    [][\A id \in CmdIds :
          (Delete(id, "ok") /\ id \in Ids(scheduled_messages))
              => /\ id \notin Ids(scheduled_messages')
                 /\ \A h \in DOMAIN pool' :
                       pool'[h].cfg.id = id => ~Active(pool'[h])]_vars

\* the active timers running for the entry at i: tasks whose msg_config is
\* that entry
TimersOf(pl, msg) == { h \in DOMAIN pl : Active(pl[h]) /\ pl[h].cfg = Key(msg) }

\* C12: right after an initialize that completed, each loaded entry whose enabled field is true
\* or missing has exactly one active timer, and an entry whose enabled field
\* is false has none, not under its id either.
C12_InitializeStartsEnabled ==
    [][(Initialize("ok") /\ phase' = "running") =>
          \A i \in 1..Len(scheduled_messages') :
              LET msg == scheduled_messages'[i]
              IN  IF get_enabled(msg)
                  THEN Cardinality(TimersOf(pool', msg)) = 1
                  ELSE \A h \in DOMAIN pool' :
                          pool'[h].cfg.id = msg.id => ~Active(pool'[h])]_vars

\* a document json.load raises on, or a list with a record that lacks "id"
Malformed(doc) ==
    \/ doc.kind = "garbage"
    \/ doc.kind = "list" /\ \E i \in 1..Len(doc.entries) : doc.entries[i].id = NoId

\* C13: initialize on a malformed document completes with an empty store,
\* and the plugin runs.
C13_MalformedFallsBack ==
    [][(Initialize("ok") /\ Malformed(file)) =>
          phase' = "running" /\ scheduled_messages' = <<>>]_vars

\* the same store, task map, tasks and reply
SameButFile(P, Q) ==
    /\ P.sm = Q.sm
    /\ P.tasks = Q.tasks
    /\ P.pool = Q.pool
    /\ P.out = Q.out

\* C14: a command whose save fails leaves the store, the task map, the tasks
\* and the reply exactly as the same command with a successful save does.
C14_SaveFailureAbsorbed ==
    phase = "running" =>
        \A sv \in SaveOutcomes \ {"ok"} :
            /\ \A ts \in TimeInputs :
                  SameButFile(add_timed_message(Cur, ts, clock, sv),
                              add_timed_message(Cur, ts, clock, "ok"))
            /\ \A id \in CmdIds :
                  /\ SameButFile(delete_timed_message(Cur, id, sv),
                                 delete_timed_message(Cur, id, "ok"))
                  /\ SameButFile(toggle_timed_message(Cur, id, sv),
                                 toggle_timed_message(Cur, id, "ok"))

\* an add whose save failed: the entry is stored, its timer registered, the
\* document does not hold it
C14_Witness ==
    /\ out = Out("add", "added")
    /\ file # json_dump(scheduled_messages)
    /\ Len(scheduled_messages) > 0
    /\ HasActive(Cur, scheduled_messages[Len(scheduled_messages)].id)

\* what a new process makes of the document: the plugin constructed, then
\* initialize
Rebuild(doc) ==
    initialize([sm |-> <<>>, tasks |-> <<>>, pool |-> <<>>,
                file |-> doc, out |-> NoOut], "ok")

\* the msg_configs of the timers that are alive once every task has taken
\* the step it has queued
LiveConfigs(pl, now) ==
    { pl[h].cfg : h \in { g \in DOMAIN pl :
        Active(IF pl[g].st = "new" \/ pl[g].cancel
               THEN Resume(pl[g], now) ELSE pl[g]) } }

\* C15: after an add, delete or toggle that changed the store and saved, the
\* document is the dump of the store, and a new process initialized from it
\* has the same store and live timers for the same entries.
C15_DocumentRebuildsState ==
    [][(out'.op \in {"add", "delete", "toggle"}
          /\ out'.res \in {"added", "deleted", "enabled", "disabled"}
          /\ out' # out)
        => /\ file' = json_dump(scheduled_messages')
           /\ Rebuild(file').sm = scheduled_messages'
           /\ LiveConfigs(Rebuild(file').pool, clock')
                = LiveConfigs(pool', clock')]_vars

\* C16: a timer that goes to sleep sleeps until today's fire time when the
\* time of day is before it, until tomorrow's when it is at or past it; the
\* wait is more than nothing and at most a day.
C16_NextFire ==
    [][\A h \in DOMAIN pool' :
          (/\ pool'[h].st = "sleep"
           /\ h \in DOMAIN pool => (pool[h].st # "sleep"
                                      \/ pool[h].wake # pool'[h].wake))
          => LET now    == clock
                 target == fromisoformat(pool'[h].cfg.time).tod
                 today  == (now \div DayLen) * DayLen
                 w      == pool'[h].wake
             IN  /\ now % DayLen < target  => w = today + target
                 /\ now % DayLen >= target => w = today + DayLen + target
                 /\ w - now > 0
                 /\ w - now <= DayLen]_vars

\* a timer that computed its next fire at the fire instant itself: it waits
\* a whole day
C16_Witness ==
    \E h \in DOMAIN pool :
        /\ pool[h].st = "sleep"
        /\ clock % DayLen = fromisoformat(pool[h].cfg.time).tod
        /\ pool[h].wake = clock + DayLen

\* Every state change of a handler precedes its first yield, and neither
\* `await self.save_config()` nor `await self.start_single_task(...)`
\* suspends (the coroutines await nothing): two handlers interleaved at
\* their suspension points change the state in one of the two serial orders.
TwoCommands(P, id) ==
    { delete_timed_message(toggle_timed_message(P, id, "ok"), id, "ok"),
      toggle_timed_message(delete_timed_message(P, id, "ok"), id, "ok"),
      toggle_timed_message(toggle_timed_message(P, id, "ok"), id, "ok") }

\* no active timer for an absent id; for a stored one, a timer exactly when
\* the entry is enabled
Consistent(P, id) ==
    IF id \notin Ids(P.sm)
    THEN NoActive(P, id)
    ELSE \A i \in 1..Len(P.sm) :
            P.sm[i].id = id => (get_enabled(P.sm[i]) <=> HasActive(P, id))

\* C17: after a delete and a toggle, or two toggles, of the same stored id,
\* interleaved in any way, the id has no active timer if it is no longer
\* stored, and every entry stored under it has one exactly when enabled.
C17_CriticalSection ==
    phase = "running" =>
        \A id \in Ids(scheduled_messages) :
            \A P \in TwoCommands(Cur, id) : Consistent(P, id)

\* what load_config reads from the document
Loaded(doc) ==
    load_config([sm |-> <<>>, tasks |-> <<>>, pool |-> <<>>,
                 file |-> doc, out |-> NoOut], "ok").sm

\* C18: whatever a save does, a load of the document afterwards yields the
\* list it held before the save or the list the save was writing.
C18_SaveAtomic ==
    [][Loaded(file') \in {Loaded(file), scheduled_messages'}]_vars

\* C19: while the store holds an entry whose fire time the loop cannot
\* schedule, every enabled entry with a fire time it can schedule has a live
\* timer.
C19_FailureIsolated ==
    (phase = "running"
       /\ \E i \in 1..Len(scheduled_messages) :
             ~Schedulable(scheduled_messages[i]))
    => \A j \in 1..Len(scheduled_messages) :
          (get_enabled(scheduled_messages[j]) /\ Schedulable(scheduled_messages[j]))
              => Key(scheduled_messages[j]) \in LiveConfigs(pool, clock)

\* C20: terminate is terminal: once terminate has returned no timer of the
\* instance is active, none delivers, and no later add or toggle brings a
\* timer back to life.
C20_TerminateIsTerminal ==
    phase = "terminated" =>
        /\ \A h \in DOMAIN pool : ~Active(pool[h])
        /\ out.op # "send"

====
